---- MODULE Spec2Model ----
(***************************************************************************)
(* The CodeReAct workflow graph of Prisma (src/src/core): the run state    *)
(* (AgentState), the fourteen nodes, the routing functions of the          *)
(* DecisionEngine and the top-level CodeReActWorkflow.run.                 *)
(*                                                                         *)
(* A node action models the whole LangGraph step: the node function, the   *)
(* merge of the returned update into the state, and the edge (static or    *)
(* conditional) that selects the next node.  Texts are sequences of        *)
(* tokens, so that prefix tests (startswith) and concatenations            *)
(* (f-strings, join) are computed as the code computes them.               *)
(***************************************************************************)
EXTENDS Integers, Sequences, FiniteSets, TLC

(* ---------------------------- bounds ----------------------------------- *)
\* largest plan the planner model returns
MaxSubtasks == 2
\* validate outcomes are drawn only while generation_retry_count is below this
MaxGenCount == 4
\* failed reviews are drawn only while review_retry_count is below this
MaxReviewCount == 4

(* ------------------------ program constants ---------------------------- *)
MAX_RETRIES == 3
\* hard-coded cap of decide_review
REVIEW_CAP == 3
\* hard-coded cap of fail_node, decide_failure and decide_finish
FAILURE_CAP == 3

(* ------------------------------ texts ---------------------------------- *)
\* Python None; formats as the text "None" in an f-string
None == <<"None">>

Truthy(t) == t # None /\ t # <<>>

\* str.startswith("[Error]")
StartsWithError(t) == Len(t) > 0 /\ t[1] = "[Error]"

\* str.startswith("[Workflow Error]")
StartsWithWorkflowError(t) == Len(t) > 0 /\ t[1] = "[Workflow Error]"

\* str.startswith("[CacheMiss]")
StartsWithCacheMiss(t) == Len(t) > 0 /\ t[1] = "[CacheMiss]"

\* str(n) inside an f-string
IntToStr(n) ==
    CASE n = 0 -> "0" [] n = 1 -> "1" [] n = 2 -> "2" [] n = 3 -> "3"
      [] n = 4 -> "4" [] n = 5 -> "5" [] OTHER -> "many"

RECURSIVE Join(_)
\* "\n---\n".join(results)
Join(results) ==
    IF Len(results) = 0 THEN <<>>
    ELSE IF Len(results) = 1 THEN results[1]
    ELSE results[1] \o <<"---">> \o Join(Tail(results))

(* ------------------------ external input domains ----------------------- *)
\* user queries and capability queries the planner may produce
Queries == {"Add X", "ping"}

\* capability_query.replace(" ", "_").lower()[:40]
NormalizeQuery(q) ==
    CASE q = "Add X" -> "add_x"
      [] q = "ping" -> "ping"
      [] OTHER -> q

\* the tool design the brainstorm model proposes: a name and an input schema
\* without properties; its name is the normalized form of the query "Add X"
ToolNames == {"add_x"}
SchemaOf(n) == IF n = "add_x" THEN "noprops" ELSE "props"

\* argument dictionaries prepare_args may produce: {} or one non-empty dict
EmptyArgs == "{}"
ArgSets == {EmptyArgs, "{x:1}"}

\* code text the generator returns: a function and a self-test section
Codes == { <<"def", "if __name__ == \"__main__\":", "selftest">> }

\* results of code_execute_local: an output or an "[Error] ..." text
OkOutput == <<"68">>
ErrOutput == <<"[Error]", "exit 1">>
ExecResults == {OkOutput, ErrOutput}

BrainstormErrors == { <<"Missing required fields">> }

(* --------------------------- result cache ------------------------------ *)
CacheDirs == ToolNames \cup {"mul"} \cup {NormalizeQuery(q) : q \in Queries}
CacheKeys == CacheDirs \X ArgSets
\* no file at that path
Absent == <<"absent">>
CacheMissText == <<"[CacheMiss]", "No cached output">>

\* json.dumps(sig or {}, sort_keys=True) hashed; arguments are canonical tokens
SignatureHash(sig) == IF sig = "" THEN EmptyArgs ELSE sig

\* cache_helper.get_cached_output
GetCachedOutput(c, name, sig) ==
    IF name = "" THEN <<"[Error]", "tool_name is required">>
    ELSE IF c[<<name, SignatureHash(sig)>>] = Absent THEN CacheMissText
    ELSE c[<<name, SignatureHash(sig)>>]

\* _cache_result: json.dumps(args, sort_keys=True) hashed, without the
\* "or {}" of the reader (None is dumped as null)
WriteSignatureHash(args) == IF args = "" THEN "null" ELSE args

\* mutant: the file is named after the tool alone, the arguments are ignored
CacheResult_NameOnly(c, name, args, result) ==
    [c EXCEPT ![<<name, EmptyArgs>>] = result]

\* ExecutionNodes._cache_result
CacheResult(c, name, args, result) ==
    [c EXCEPT ![<<name, WriteSignatureHash(args)>>] = result]

(* --------------------------- tool registry ----------------------------- *)
RECURSIVE StripMain(_)
\* everything from the direct-execution guard on is dropped
StripMain(code) ==
    IF Len(code) = 0 THEN <<>>
    ELSE IF code[1] = "if __name__ == \"__main__\":" THEN <<>>
    ELSE <<code[1]>> \o StripMain(Tail(code))

\* mcp_helper.extract_function_code
ExtractFunctionCode(code) == StripMain(code)

\* mcp_helper.insert_mcp: read the file, append the record, write it back
InsertMcp(reg, tool) ==
    Append(reg, [tool EXCEPT !.code = ExtractFunctionCode(tool.code)])

RegistryNames(reg) == {reg[i].name : i \in 1..Len(reg)}

\* first record of that name
FirstByName(reg, n) ==
    reg[CHOOSE i \in 1..Len(reg) :
            reg[i].name = n /\ \A j \in 1..(i-1) : reg[j].name # n]

\* mcp_helper.get_mcp_code
GetMcpCode(reg, n) ==
    IF n \in RegistryNames(reg) THEN FirstByName(reg, n).code
    ELSE <<"Tool not found.">>

(* ------------------------------ state ---------------------------------- *)
VARIABLES
    pc,                 \* node the graph runs next, or END / returned
    last,               \* node that ran last
    interactive,        \* WorkflowHelpers._interactive
    original_query,
    subtasks,
    current_subtask_idx,    \* 0-based, as in the code
    active_query,
    subtask_results,
    has_more_subtasks,
    current_subtask_failure_count,
    tool_name,
    tool_input_schema,
    tool_arguments,
    validation_passed,
    validation_error,
    generation_retry_count,
    need_more_research,
    generated_code,
    final_answer,
    review_passed,
    review_retry_count,
    resolve_action,
    last_message,       \* content of messages[-1]
    registry,           \* mcp_registry.json
    cache,              \* .prisma/cache
    finish_count,       \* finish transitions since the last plan
    synth_validations,  \* validate transitions since the last brainstorm
    validate_count,     \* validate transitions of the run
    outcome,            \* what the external call of the node that ran last
                        \* returned ("None" when the node makes no such call)
    cache_writes,       \* the _cache_result calls made so far
    executed_queries,   \* capability queries whose tool ran and was cached
    run_result          \* what CodeReActWorkflow.run returned

workflowVars == << pc, last, interactive, original_query, subtasks,
           current_subtask_idx, active_query, subtask_results,
           has_more_subtasks, current_subtask_failure_count, tool_name,
           tool_input_schema, tool_arguments, validation_passed,
           validation_error, generation_retry_count, need_more_research,
           generated_code, final_answer, review_passed, review_retry_count,
           resolve_action, last_message, registry, cache,
           finish_count, synth_validations, validate_count, outcome,
           cache_writes, executed_queries, run_result >>

\* groups used in UNCHANGED clauses
planVars == << subtasks, current_subtask_idx, active_query >>
toolVars == << tool_name, tool_input_schema, tool_arguments, generated_code >>
valVars == << validation_passed, validation_error, generation_retry_count,
              need_more_research >>
reviewVars == << review_passed, review_retry_count >>
storeVars == << registry, cache >>
fixedVars == << interactive, original_query, run_result >>
histVars == << finish_count, synth_validations, validate_count,
              cache_writes, executed_queries >>

(* ---------------------- environment manager state ---------------------- *)
VARIABLES
    ip_pc,              \* position inside install_packages, "idle" between calls
    all_packages,       \* packages + system_packages of the call
    attempt,            \* the loop variable of install_packages
    needed_packages,
    pip_packages,
    conda_error,
    ip_result,          \* the (success, error_message) pair returned last
    initialized,        \* self._initialized
    installed_packages, \* self.installed_packages, the cached listing
    env_kind,           \* what is at env_path: "none", "conda" or "venv"
    env_installed,      \* names pip lists in the environment at env_path
    wipes,              \* _wipe_environment calls of the current call
    sequences,          \* loop iterations started by the current call
    conda_calls,        \* conda install commands of the current call
    pip_calls,          \* pip install commands of the current call
    first_failed,       \* the first iteration of the current call failed
    installed_at_call,  \* all requested packages were installed at the call
    list_failed,        \* a pip list command of the current call failed
    last_failure,       \* what failed in the last failed iteration
    conda_attempted     \* conda install was run in the current iteration

installVars == << ip_pc, all_packages, attempt, needed_packages, pip_packages,
                 conda_error, ip_result, initialized, installed_packages,
                 env_kind, env_installed, wipes, sequences, conda_calls,
                 pip_calls, first_failed, installed_at_call, list_failed,
                 last_failure, conda_attempted >>

(* ------------------------- execute_code state -------------------------- *)
VARIABLES
    ec_pc,              \* position inside execute_code, "idle" between calls
    use_isolated_env,   \* use_isolated_env and tool_name of the call
    function_name,      \* a function name was given (known once it is read)
    env_path,           \* self.env_path: "shared" or "iso"
    python_executable,  \* self.python_executable, of the same values
    original_env_path,
    original_python_exec,
    other_kind,         \* the environment env_path does not point to
    other_installed,
    correction_attempt, \* the loop variable of the correction loop
    current_packages,
    current_code,       \* "valid" or "invalid" for compile(), "none" if empty
    package_failure_counts,
    discarded_packages,
    fault_log,
    package_success,
    syntax_success,
    runtime_attempt,
    exec_process,       \* returncode, stdout and stderr of the last run
    response,           \* the LocalRunnerResponse returned last
    prepares,           \* install + syntax check attempts of the call
    corrections,        \* correction requests of the call
    runs                \* subprocess runs of the code in the call

ecVars == << ec_pc, use_isolated_env, function_name, env_path,
             python_executable, original_env_path, original_python_exec,
             other_kind, other_installed, correction_attempt,
             current_packages, current_code, package_failure_counts,
             discarded_packages,
             fault_log, package_success, syntax_success, runtime_attempt,
             exec_process, response, prepares, corrections, runs >>

(* ------------------ insert_mcp calls of concurrent runs ---------------- *)
VARIABLES
    im_pc,              \* per run: position inside its insert_mcp call
    im_tool,            \* per run: the tool argument of the call
    im_data             \* per run: the list loaded from mcp_registry.json

insertVars == << im_pc, im_tool, im_data >>

\* what lies outside the run of the workflow
envVars == << installVars, ecVars, insertVars >>

\* what install_packages leaves alone
callerVars == << workflowVars, ecVars, insertVars >>

\* what execute_code leaves alone
runVars == << workflowVars, insertVars >>

vars == << workflowVars, envVars >>

\* no install_packages call made yet
NoResult == [success |-> FALSE, error |-> <<"no call">>]

\* local variables and per-call records at the entry of install_packages
CallEntry(pkgs) ==
    /\ all_packages = pkgs
    /\ attempt = 0
    /\ needed_packages = {}
    /\ pip_packages = {}
    /\ conda_error = None
    /\ wipes = 0
    /\ sequences = 0
    /\ conda_calls = 0
    /\ pip_calls = 0
    /\ first_failed = FALSE
    /\ list_failed = FALSE
    /\ last_failure = "none"
    /\ conda_attempted = FALSE

\* no process was run
NoProcess == [returncode |-> 0, stdout |-> None, stderr |-> None]

\* no execute_code call made yet
NoResponse == [output |-> None, error |-> None]

\* the manager points at the shared environment and executes nothing
ExecIdle ==
    /\ ec_pc = "idle"
    /\ use_isolated_env = FALSE
    /\ function_name = FALSE
    /\ env_path = "shared"
    /\ python_executable = "shared"
    /\ original_env_path = "shared"
    /\ original_python_exec = "shared"
    /\ other_kind = "none"
    /\ other_installed = {}
    /\ correction_attempt = 0
    /\ current_packages = {}
    /\ current_code = "none"
    /\ package_failure_counts = << >>
    /\ discarded_packages = {}
    /\ fault_log = << >>
    /\ package_success = FALSE
    /\ syntax_success = FALSE
    /\ runtime_attempt = 0
    /\ exec_process = NoProcess
    /\ response = NoResponse
    /\ prepares = 0
    /\ corrections = 0
    /\ runs = 0

\* PersistentEnvironmentManager.__init__, before any environment exists
ManagerFresh ==
    /\ ip_pc = "idle"
    /\ ExecIdle
    /\ CallEntry({})
    /\ ip_result = NoResult
    /\ initialized = FALSE
    /\ installed_packages = {}
    /\ env_kind = "none"
    /\ env_installed = {}
    /\ installed_at_call = FALSE

EmptyCache == [k \in CacheKeys |-> Absent]

\* a record left in mcp_registry.json by an earlier run
OldTool == [name |-> "mul", input |-> "props", code |-> <<"def">>]

\* the runs that register a tool at the same time
Runs == {"run1", "run2"}

\* no tool given yet
NoTool == [name |-> "None", input |-> "None", code |-> << >>]

\* tools a run may register: as generated, or already without a self-test
InsertTools ==
    { [name |-> n, input |-> SchemaOf(n), code |-> c] :
        n \in ToolNames \cup {"sub_y", "neg_z"},
        c \in Codes \cup { <<"def">> } }

\* no insert_mcp call in progress
InsertIdle ==
    /\ im_pc = [r \in Runs |-> "idle"]
    /\ im_tool = [r \in Runs |-> NoTool]
    /\ im_data = [r \in Runs |-> << >>]

\* create_default_agent_state, with the entry point of the graph
WorkflowInit ==
    /\ pc = "plan"
    /\ last = "START"
    /\ interactive = FALSE   \* CodeReActWorkflow() default: autonomous mode
    /\ original_query = "Add X"
    /\ subtasks = <<>>
    /\ current_subtask_idx = 0
    /\ active_query = original_query
    /\ subtask_results = <<>>
    /\ has_more_subtasks = FALSE
    /\ current_subtask_failure_count = 0
    /\ tool_name = "None"
    /\ tool_input_schema = "None"
    /\ tool_arguments = "None"
    /\ validation_passed = FALSE
    /\ validation_error = None
    /\ generation_retry_count = 0
    /\ need_more_research = FALSE
    /\ generated_code = None
    /\ final_answer = None
    /\ review_passed = FALSE
    /\ review_retry_count = 0
    /\ resolve_action = "None"
    /\ last_message = <<original_query>>
    /\ registry \in {<<>>, <<OldTool>>}
    /\ cache = EmptyCache
    /\ finish_count = 0
    /\ synth_validations = 0
    /\ validate_count = 0
    /\ outcome = "None"
    /\ cache_writes = {}
    /\ executed_queries = {}
    /\ run_result = None

\* a run of the workflow; the environment manager is the fresh singleton
Init == WorkflowInit /\ ManagerFresh /\ InsertIdle

(* ------------------------- decision engine ----------------------------- *)
\* mutant: what is not a cache hit uses an existing tool
DecideResolution_Existing(action) ==
    CASE action = "use_cache" -> "finish"
      [] OTHER -> "prepare_args"

DecideResolution(action) ==
    CASE action = "use_cache" -> "finish"
      [] action = "use_mcp" -> "prepare_args"
      [] OTHER -> "brainstorm"

DecideGeneration(verr, needMore) ==
    IF Truthy(verr) THEN "fail"
    ELSE IF needMore THEN "research"
    ELSE "validate"

DecideValidation(passed, retryCount) ==
    IF passed THEN "register"
    ELSE IF retryCount < MAX_RETRIES THEN "generate"
    ELSE "fail"

DecideBrainstorm(verr) == IF Truthy(verr) THEN "fail" ELSE "research"

DecidePrepareArgs(verr) == IF Truthy(verr) THEN "fail" ELSE "execute"

\* mutant: the run is ended after the last subtask without a review
DecideFinish_NoReview(failures, hasMore) ==
    IF hasMore THEN "next_subtask" ELSE "END"

DecideFinish(failures, hasMore) ==
    IF failures >= FAILURE_CAP THEN "END"
    ELSE IF hasMore THEN "next_subtask"
    ELSE "review"

DecideReview(passed, retries) ==
    IF passed THEN "END"
    ELSE IF retries >= REVIEW_CAP THEN "fail"
    ELSE "plan"

\* mutant: the comparison is strict, a third failure is retried
DecideFailure_Strict(failures) ==
    IF failures > FAILURE_CAP THEN "END" ELSE "next_subtask"

\* mutant: the run is ended one failure early
DecideFailure_Early(failures) ==
    IF failures >= FAILURE_CAP - 1 THEN "END" ELSE "next_subtask"

DecideFailure(failures) ==
    IF failures >= FAILURE_CAP THEN "END" ELSE "next_subtask"

(* ---------------------------- planning --------------------------------- *)
\* a subtask as the planner output leaves it after setdefault
Subtask(d, q) ==
    [description |-> d, capability_query |-> q, status |-> "None"]

\* the capability query of the i-th subtask of a plan of the planner model
PlannerQuery(i) == IF i % 2 = 1 THEN "ping" ELSE "Add X"

\* plans the planner model can return as a JSON array: 1..MaxSubtasks subtasks
Plans ==
    { [i \in 1..n |-> Subtask("step", PlannerQuery(i))] : n \in 1..MaxSubtasks }

\* the fallback for output that is not a non-empty JSON array
\* mutant: the fallback is built from the query that is active
FallbackPlan_Active == << Subtask(active_query, active_query) >>

FallbackPlan == << Subtask(original_query, original_query) >>

PlanNode ==
    /\ pc = "plan"
    /\ \/ \E result \in Plans :
             /\ subtasks' = result
             /\ active_query' = result[1].capability_query
             /\ outcome' = "subtasks"
       \/ \* not result or not isinstance(result, list)
          /\ subtasks' = FallbackPlan
          /\ active_query' = FallbackPlan[1].capability_query
          /\ outcome' = "malformed"
    /\ current_subtask_idx' = 0
    /\ subtask_results' = <<>>
    /\ finish_count' = 0
    /\ pc' = "maybe_request_user_input"
    /\ last' = "plan"
    /\ UNCHANGED << has_more_subtasks, current_subtask_failure_count,
                    toolVars, valVars, final_answer, reviewVars,
                    resolve_action, last_message, storeVars,
                    synth_validations, validate_count,
                    cache_writes,
                    executed_queries, fixedVars, envVars >>

\* the interactive check: the model answers "continue" or asks a question
MaybeRequestUserInputNode ==
    /\ pc = "maybe_request_user_input"
    /\ \/ /\ ~interactive
          /\ UNCHANGED last_message
       \/ /\ interactive
          /\ \E asks \in BOOLEAN :
                last_message' = IF asks THEN <<"User feedback:", "reply">>
                                ELSE last_message
    /\ pc' = "next_subtask"
    /\ last' = "maybe_request_user_input"
    /\ outcome' = "None"
    /\ UNCHANGED << planVars, subtask_results, has_more_subtasks,
                    current_subtask_failure_count, toolVars, valVars,
                    final_answer, reviewVars, resolve_action, storeVars,
                    histVars, fixedVars, envVars >>

NextSubtaskNode ==
    /\ pc = "next_subtask"
    /\ IF subtasks = <<>> \/ current_subtask_idx >= Len(subtasks)
       THEN /\ has_more_subtasks' = FALSE
            /\ UNCHANGED << subtasks, active_query >>
       ELSE /\ subtasks' = [subtasks EXCEPT
                               ![current_subtask_idx + 1].status = "resolving"]
            /\ active_query' = subtasks[current_subtask_idx + 1].capability_query
            /\ has_more_subtasks' = TRUE
    /\ pc' = "resolve"
    /\ last' = "next_subtask"
    /\ outcome' = "None"
    /\ UNCHANGED << current_subtask_idx, subtask_results,
                    current_subtask_failure_count, toolVars, valVars,
                    final_answer, reviewVars, resolve_action, last_message,
                    storeVars, histVars, fixedVars, envVars >>

(* --------------------------- capability -------------------------------- *)
\* capability_resolver.resolve_capability; match is the verdict of the model
\* that query_mcp_registry asks: the name of a registered tool or "no match"
ResolveCapability(q, match) ==
    LET hit == GetCachedOutput(cache, NormalizeQuery(q), "")
    IN  IF ~StartsWithCacheMiss(hit) /\ ~StartsWithError(hit)
        THEN [action |-> "use_cache", data |-> hit]
        ELSE IF match \in RegistryNames(registry)
        THEN [action |-> "use_mcp", data |-> FirstByName(registry, match)]
        ELSE [action |-> "create_new_tool", data |-> None]

ResolveNode ==
    /\ pc = "resolve"
    /\ \E match \in RegistryNames(registry) \cup {"no match"} :
          LET result == ResolveCapability(active_query, match)
          IN  /\ resolve_action' = result.action
              /\ subtask_results' =
                    IF result.action = "use_cache"
                    THEN Append(subtask_results, result.data)
                    ELSE subtask_results
              /\ tool_name' =
                    IF result.action = "use_mcp" THEN result.data.name
                    ELSE tool_name
              /\ tool_input_schema' =
                    IF result.action = "use_mcp" THEN result.data.input
                    ELSE tool_input_schema
              /\ pc' = DecideResolution(result.action)
    /\ last' = "resolve"
    /\ outcome' = "None"
    /\ UNCHANGED << planVars, has_more_subtasks,
                    current_subtask_failure_count, tool_arguments,
                    generated_code, valVars, final_answer, reviewVars,
                    last_message, storeVars, histVars, fixedVars, envVars >>

BrainstormNode ==
    /\ pc = "brainstorm"
    /\ \/ \E n \in ToolNames :
             /\ tool_name' = n
             /\ tool_input_schema' = SchemaOf(n)
             /\ validation_error' = None
             /\ last_message' = <<"brainstorm", n>>
       \/ \E e \in BrainstormErrors :
             /\ validation_error' = e
             /\ last_message' = e
             /\ UNCHANGED << tool_name, tool_input_schema >>
    /\ pc' = DecideBrainstorm(validation_error')
    /\ last' = "brainstorm"
    /\ outcome' = "None"
    /\ synth_validations' = 0
    /\ UNCHANGED << planVars, subtask_results, has_more_subtasks,
                    current_subtask_failure_count, tool_arguments,
                    generated_code, validation_passed,
                    generation_retry_count, need_more_research,
                    final_answer, reviewVars, resolve_action, storeVars,
                    finish_count, validate_count, cache_writes,
                    executed_queries, fixedVars, envVars >>

ResearchNode ==
    /\ pc = "research"
    /\ last_message' = <<"Research for", tool_name, "capability">>
    /\ pc' = "generate"
    /\ last' = "research"
    /\ outcome' = "None"
    /\ UNCHANGED << planVars, subtask_results, has_more_subtasks,
                    current_subtask_failure_count, toolVars, valVars,
                    final_answer, reviewVars, resolve_action, storeVars,
                    histVars, fixedVars, envVars >>

GenerateNode ==
    /\ pc = "generate"
    /\ \/ \* the model signals NEED_MORE_INFO
          /\ need_more_research' = TRUE
          /\ outcome' = "NEED_MORE_INFO"
          /\ UNCHANGED << generated_code, validation_passed, validation_error >>
       \/ \E code \in Codes :
             /\ generated_code' = code
             /\ validation_passed' = FALSE
             /\ validation_error' = None
             /\ outcome' = "code"
             /\ UNCHANGED need_more_research
    /\ pc' = DecideGeneration(validation_error', need_more_research')
    /\ last' = "generate"
    /\ UNCHANGED << planVars, subtask_results, has_more_subtasks,
                    current_subtask_failure_count, tool_name,
                    tool_input_schema, tool_arguments,
                    generation_retry_count, final_answer, reviewVars,
                    resolve_action, last_message, storeVars, histVars,
                    fixedVars, envVars >>

\* mutant: a validation that passes leaves the counter as it is
NextRetryCount_OnFailure(count, success) ==
    IF success THEN count ELSE count + 1

\* state.get("generation_retry_count", 0) + 1, whatever the result
NextRetryCount(count, success) == count + 1

\* validate_node: success = not result.startswith("[Error]")
ValidationSuccess(result) == ~StartsWithError(result)

ValidateNode ==
    /\ pc = "validate"
    /\ generation_retry_count < MaxGenCount
    /\ \E result \in ExecResults :
          LET success == ValidationSuccess(result)
          IN  /\ validation_passed' = success
              /\ validation_error' = IF success THEN None ELSE result
              /\ generation_retry_count' =
                    NextRetryCount(generation_retry_count, success)
    /\ synth_validations' = synth_validations + 1
    /\ validate_count' = validate_count + 1
    /\ pc' = DecideValidation(validation_passed', generation_retry_count')
    /\ last' = "validate"
    /\ outcome' = "None"
    /\ UNCHANGED << planVars, subtask_results, has_more_subtasks,
                    current_subtask_failure_count, toolVars,
                    need_more_research, final_answer,
                    reviewVars, resolve_action, last_message, storeVars,
                    finish_count, cache_writes,
                    executed_queries, fixedVars, envVars >>

RegisterNode ==
    /\ pc = "register"
    /\ registry' = InsertMcp(registry,
                             [name |-> tool_name, input |-> tool_input_schema,
                              code |-> StripMain(generated_code)])
    /\ last_message' = <<"Tool", tool_name, "registered successfully">>
    /\ pc' = "finish"
    /\ last' = "register"
    /\ outcome' = "None"
    /\ UNCHANGED << planVars, subtask_results, has_more_subtasks,
                    current_subtask_failure_count, toolVars, valVars,
                    final_answer, reviewVars, resolve_action, cache,
                    histVars, fixedVars, envVars >>

(* ---------------------------- execution -------------------------------- *)
PrepareArgsNode ==
    /\ pc = "prepare_args"
    /\ IF tool_input_schema \in {"None", "noprops"}
       THEN tool_arguments' = EmptyArgs
       ELSE \E args \in ArgSets : tool_arguments' = args
    /\ pc' = DecidePrepareArgs(validation_error)
    /\ last' = "prepare_args"
    /\ outcome' = "None"
    /\ UNCHANGED << planVars, subtask_results, has_more_subtasks,
                    current_subtask_failure_count, tool_name,
                    tool_input_schema, generated_code, valVars, final_answer,
                    reviewVars, resolve_action, last_message, storeVars,
                    histVars, fixedVars, envVars >>

\* mutant: every result of the tool is cached, error texts included
ShouldCache_Always(result) == TRUE

\* execute_node: the test that guards the call of _cache_result
ShouldCache(result) ==
    ~StartsWithError(result) /\ ~StartsWithWorkflowError(result)

\* the record of one _cache_result call
CacheWrite(name, args, text) ==
    [name |-> name, args |-> args, text |-> text]

ExecuteNode ==
    /\ pc = "execute"
    /\ LET cached == GetCachedOutput(cache, tool_name, tool_arguments)
       IN  IF ~StartsWithCacheMiss(cached) /\ ~StartsWithError(cached)
           THEN /\ subtask_results' = Append(subtask_results, cached)
                /\ last_message' = cached
                /\ outcome' = "cache hit"
                /\ UNCHANGED << cache, cache_writes, executed_queries >>
           ELSE \E result \in ExecResults :
                   /\ cache' = IF ShouldCache(result)
                               THEN CacheResult(cache, tool_name,
                                                tool_arguments, result)
                               ELSE cache
                   /\ cache_writes' =
                         IF ShouldCache(result)
                         THEN cache_writes \cup
                                {CacheWrite(tool_name, tool_arguments,
                                            result)}
                         ELSE cache_writes
                   /\ executed_queries' =
                         IF ShouldCache(result)
                         THEN executed_queries \cup {active_query}
                         ELSE executed_queries
                   /\ subtask_results' = Append(subtask_results, result)
                   /\ last_message' = result
                   /\ outcome' = "executed"
    /\ pc' = "finish"
    /\ last' = "execute"
    /\ UNCHANGED << planVars, has_more_subtasks,
                    current_subtask_failure_count, toolVars, valVars,
                    final_answer, reviewVars, resolve_action, registry,
                    finish_count, synth_validations, validate_count,
                    fixedVars, envVars >>

(* ---------------------------- completion ------------------------------- *)
\* the candidate final answer of finish_node
FinishAnswer(final_content, results) ==
    IF StartsWithError(final_content) THEN <<"Error", ": ">> \o final_content
    ELSE IF Len(results) > 1 THEN <<"Combined results:">> \o Join(results)
    ELSE final_content

\* mutant: the index may advance onto the end of the list
HasMore_Inclusive(idx, subs) == idx + 1 <= Len(subs)

\* finish_node: has_more = next_idx < len(subtasks)
HasMore(idx, subs) == idx + 1 < Len(subs)

\* mutant: finish leaves the failure count of the subtask it completed
FinishFailureCount_Keep(count) == count

\* finish_node: updates["current_subtask_failure_count"] = 0, on every path
FinishFailureCount(count) == 0

FinishNode ==
    /\ pc = "finish"
    /\ LET next_idx == current_subtask_idx + 1
           has_more == HasMore(current_subtask_idx, subtasks)
           answer == FinishAnswer(last_message, subtask_results)
       IN  /\ final_answer' = answer
           /\ has_more_subtasks' = has_more
           /\ last_message' = <<"Completed:">> \o answer
           /\ current_subtask_failure_count' =
                 FinishFailureCount(current_subtask_failure_count)
           /\ current_subtask_idx' = IF has_more THEN next_idx
                                     ELSE current_subtask_idx
    /\ finish_count' = finish_count + 1
    /\ pc' = DecideFinish(current_subtask_failure_count', has_more_subtasks')
    /\ last' = "finish"
    /\ outcome' = "None"
    /\ UNCHANGED << subtasks, active_query, subtask_results, toolVars,
                    valVars, reviewVars, resolve_action, storeVars,
                    synth_validations, validate_count,
                    cache_writes,
                    executed_queries, fixedVars, envVars >>

\* detect_finish returns a verdict, or {"finish": False} for output it cannot
\* parse, or raises
ReviewVerdicts == {"finish", "not finished", "unparsable", "raises"}

ReviewPassed(verdict) == verdict \in {"finish", "raises"}

ReviewNode ==
    /\ pc = "review"
    /\ \E verdict \in ReviewVerdicts :
          LET passed == ReviewPassed(verdict)
          IN  /\ passed \/ review_retry_count < MaxReviewCount
              /\ review_passed' = passed
              /\ review_retry_count' = IF passed THEN 0
                                       ELSE review_retry_count + 1
              /\ outcome' = verdict
    /\ pc' = DecideReview(review_passed', review_retry_count')
    /\ last' = "review"
    /\ UNCHANGED << planVars, subtask_results, has_more_subtasks,
                    current_subtask_failure_count, toolVars, valVars,
                    final_answer, resolve_action, last_message, storeVars,
                    histVars, fixedVars, envVars >>

\* mutant: the terminal answer carries no error marker
TerminalFailureAnswer_Unmarked(n, error) ==
    <<"Subtask failed after maximum retries", IntToStr(n), "Last error:">>
    \o error

\* fail_node: the final answer of a run that gives up
TerminalFailureAnswer(n, error) ==
    <<"Error", ": Subtask failed after maximum retries", IntToStr(n),
      "Last error:">> \o error

FailNode ==
    /\ pc = "fail"
    /\ LET error == validation_error
           current_failures == current_subtask_failure_count + 1
       IN  /\ current_subtask_failure_count' = current_failures
           /\ IF current_failures >= FAILURE_CAP
              THEN /\ last_message' = <<"Subtask failed after",
                                        IntToStr(current_failures),
                                        "attempts. Terminating workflow.">>
                   /\ final_answer' =
                         TerminalFailureAnswer(current_failures, error)
                   /\ has_more_subtasks' = FALSE
                   /\ UNCHANGED validation_error
              ELSE /\ last_message' = <<"Subtask failed (attempt",
                                        IntToStr(current_failures), "/3):">>
                                      \o error
                   /\ validation_error' = error
                   /\ UNCHANGED << final_answer, has_more_subtasks >>
    /\ pc' = DecideFailure(current_subtask_failure_count')
    /\ last' = "fail"
    /\ outcome' = "None"
    /\ UNCHANGED << planVars, subtask_results, toolVars, validation_passed,
                    generation_retry_count, need_more_research,
                    reviewVars, resolve_action, storeVars, histVars,
                    fixedVars, envVars >>

(* --------------------------- top-level run ----------------------------- *)
\* nodes whose external call is not wrapped in a try block
RaisingNodes == {"plan", "resolve", "generate", "validate", "register",
                 "prepare_args", "execute"}

\* run: result = final_state.get("final_answer", "No result")
RunReturn ==
    /\ pc = "END"
    /\ run_result' = final_answer
    /\ pc' = "returned"
    /\ UNCHANGED << last, outcome, planVars, subtask_results, has_more_subtasks,
                    current_subtask_failure_count, toolVars, valVars,
                    final_answer, reviewVars, resolve_action, last_message,
                    storeVars, histVars, interactive, original_query,
                    envVars >>

\* an external call of a node raises, graph.invoke propagates the exception
\* and run returns "Workflow error: ..." from its except block
RunExcept ==
    /\ pc \in RaisingNodes
    /\ run_result' = <<"Workflow error:", "exception">>
    /\ pc' = "returned"
    /\ UNCHANGED << last, outcome, planVars, subtask_results, has_more_subtasks,
                    current_subtask_failure_count, toolVars, valVars,
                    final_answer, reviewVars, resolve_action, last_message,
                    storeVars, histVars, interactive, original_query,
                    envVars >>

Next ==
    \/ PlanNode
    \/ MaybeRequestUserInputNode
    \/ NextSubtaskNode
    \/ ResolveNode
    \/ BrainstormNode
    \/ ResearchNode
    \/ GenerateNode
    \/ ValidateNode
    \/ RegisterNode
    \/ PrepareArgsNode
    \/ ExecuteNode
    \/ FinishNode
    \/ ReviewNode
    \/ FailNode
    \/ RunReturn
    \/ RunExcept

Spec == Init /\ [][Next]_vars

\* the graph runner always takes the next step of a run that has one
FairSpec == Spec /\ WF_vars(Next)

(* ------------------ environment manager: install_packages ------------- *)
\* package names a caller may request
Packages == {"numpy", "PyYAML"}

\* str.lower()
Lower(p) == IF p = "PyYAML" THEN "pyyaml" ELSE p

\* the name under which pip list reports the installed distribution
ListedName(p) == p

ListedNames(ps) == { ListedName(p) : p \in ps }

\* _get_installed_packages on an initialized manager: the names of pip list
\* are added to the cached set; when the command fails the cached set is
\* returned as it is
PipList(cached, listed, ok) == IF ok THEN cached \cup listed ELSE cached

\* [p for p in packages if p.lower() not in currently_installed]
NotInstalled(ps, currently_installed) ==
    { p \in ps : Lower(p) \notin currently_installed }

\* for attempt in range(2)
INSTALL_ATTEMPTS == 2

\* mutant: the environment is wiped after every failed iteration
WipeAllowed_Always(a) == TRUE

\* if attempt == 0: wipe and retry
WipeAllowed(a) == a = 0

Success == [success |-> TRUE, error |-> None]
Failure(msg) == [success |-> FALSE, error |-> msg]

\* stderr of a failed conda install; it may be empty
CondaErrors == { <<"conda stderr">>, << >> }

\* mutant: the text of the conda installer is left out
FullError_PipOnly(cerr) == <<"Pip installation failed:", "pip stderr">>

\* the error text of a failed pip install, with conda's when there is one
FullError(cerr) ==
    IF Truthy(cerr)
    THEN <<"Conda Error:">> \o cerr \o <<"Pip Error:">>
         \o <<"Pip installation failed:", "pip stderr">>
    ELSE <<"Pip installation failed:", "pip stderr">>

\* an environment found on disk when the manager starts
ManagerInit ==
    /\ ip_pc = "idle"
    /\ ExecIdle
    /\ CallEntry({})
    /\ ip_result = NoResult
    /\ initialized = FALSE
    /\ installed_packages = {}
    /\ env_kind \in {"none", "conda", "venv"}
    /\ env_installed \in (IF env_kind = "none" THEN {{}}
                          ELSE SUBSET ListedNames(Packages))
    /\ installed_at_call = FALSE

InstallInit == WorkflowInit /\ ManagerInit /\ InsertIdle

\* the entry of install_packages with packages + system_packages
EnterInstall(pkgs) ==
    /\ all_packages' = pkgs
    /\ installed_at_call' =
          (env_kind # "none" /\ ListedNames(pkgs) \subseteq env_installed)
    /\ attempt' = 0
    /\ needed_packages' = {}
    /\ pip_packages' = {}
    /\ conda_error' = None
    /\ wipes' = 0
    /\ sequences' = 0
    /\ conda_calls' = 0
    /\ pip_calls' = 0
    /\ first_failed' = FALSE
    /\ list_failed' = FALSE
    /\ last_failure' = "none"
    /\ conda_attempted' = FALSE
    /\ ip_pc' = "ensure"

\* install_packages returns: its local variables, and the records kept about
\* the call, are gone
LeaveInstall ==
    /\ ip_pc' = "idle"
    /\ all_packages' = {}
    /\ installed_at_call' = FALSE
    /\ attempt' = 0
    /\ needed_packages' = {}
    /\ pip_packages' = {}
    /\ conda_error' = None
    /\ wipes' = 0
    /\ sequences' = 0
    /\ conda_calls' = 0
    /\ pip_calls' = 0
    /\ first_failed' = FALSE
    /\ list_failed' = FALSE
    /\ last_failure' = "none"
    /\ conda_attempted' = FALSE

\* install_packages is called on its own
InstallPackagesCall ==
    /\ ip_pc = "idle"
    /\ ec_pc = "idle"
    /\ \E pkgs \in SUBSET Packages : EnterInstall(pkgs)
    /\ UNCHANGED << ip_result, initialized, installed_packages, env_kind,
                    env_installed, callerVars >>

\* a failed iteration: wipe and retry on the first attempt, return the
\* failure otherwise; shutil.rmtree may fail and leave the directory
FailSequence(msg, what) ==
    /\ first_failed' = (first_failed \/ attempt = 0)
    /\ last_failure' = what
    /\ IF WipeAllowed(attempt)
       THEN /\ wipes' = wipes + 1
            /\ initialized' = FALSE
            /\ installed_packages' = {}
            /\ \E removed \in BOOLEAN :
                  /\ env_kind' = IF removed THEN "none" ELSE env_kind
                  /\ env_installed' = IF removed THEN {} ELSE env_installed
            /\ attempt' = attempt + 1
            /\ IF attempt + 1 < INSTALL_ATTEMPTS
               THEN ip_pc' = "ensure" /\ UNCHANGED ip_result
               ELSE /\ ip_pc' = "done"
                    /\ ip_result' =
                         Failure(<<"Exhausted package installation retries.">>)
       ELSE /\ ip_pc' = "done"
            /\ ip_result' = Failure(msg)
            /\ UNCHANGED << wipes, initialized, installed_packages, env_kind,
                            env_installed, attempt >>

\* the head of the loop body: ensure_environment
EnsureEnvironment ==
    /\ ip_pc = "ensure"
    /\ sequences' = sequences + 1
    /\ conda_attempted' = FALSE
    /\ \/ /\ initialized
          /\ ip_pc' = "check"
          /\ UNCHANGED << initialized, installed_packages, env_kind,
                          env_installed, attempt, wipes, first_failed,
                          list_failed, ip_result, last_failure >>
       \/ /\ ~initialized
          /\ env_kind # "none"
          /\ \E ok \in BOOLEAN :
                /\ installed_packages' =
                      PipList(installed_packages, env_installed, ok)
                /\ list_failed' = (list_failed \/ ~ok)
          /\ initialized' = TRUE
          /\ ip_pc' = "check"
          /\ UNCHANGED << env_kind, env_installed, attempt, wipes,
                          first_failed, ip_result, last_failure >>
       \/ /\ ~initialized
          /\ env_kind = "none"
          /\ \* conda create succeeds
             /\ env_kind' = "conda"
             /\ env_installed' = {}
             /\ initialized' = TRUE
             /\ ip_pc' = "check"
             /\ UNCHANGED << installed_packages, attempt, wipes, first_failed,
                             list_failed, ip_result, last_failure >>
       \/ /\ ~initialized
          /\ env_kind = "none"
          /\ \* conda create fails
             FailSequence(<<"Failed to ensure environment is ready.">>,
                          "ensure")
          /\ UNCHANGED list_failed
    /\ UNCHANGED << all_packages, needed_packages, pip_packages, conda_error,
                    conda_calls, pip_calls, installed_at_call, callerVars >>

\* nothing requested, or nothing missing from the listing: success
CheckNeeded ==
    /\ ip_pc = "check"
    /\ IF all_packages = {}
       THEN /\ ip_result' = Success
            /\ ip_pc' = "done"
            /\ UNCHANGED << installed_packages, needed_packages, list_failed >>
       ELSE \E ok \in BOOLEAN :
               /\ installed_packages' =
                     PipList(installed_packages, env_installed, ok)
               /\ list_failed' = (list_failed \/ ~ok)
               /\ needed_packages' =
                     NotInstalled(all_packages, installed_packages')
               /\ IF needed_packages' = {}
                  THEN ip_result' = Success /\ ip_pc' = "done"
                  ELSE ip_pc' = "conda" /\ UNCHANGED ip_result
    /\ UNCHANGED << all_packages, attempt, pip_packages, conda_error,
                    initialized, env_kind, env_installed, wipes, sequences,
                    conda_calls, pip_calls, first_failed, installed_at_call,
                    last_failure, conda_attempted, callerVars >>

\* step 1: conda install of all needed packages, in a conda environment
CondaInstall ==
    /\ ip_pc = "conda"
    /\ IF env_kind = "conda"
       THEN /\ conda_calls' = conda_calls + 1
            /\ \/ /\ env_installed' =
                        env_installed \cup ListedNames(needed_packages)
                  /\ conda_error' = None
               \/ /\ conda_error' \in CondaErrors
                  /\ UNCHANGED env_installed
       ELSE /\ conda_error' = None
            /\ UNCHANGED << conda_calls, env_installed >>
    /\ conda_attempted' = (env_kind = "conda")
    /\ ip_pc' = "verify"
    /\ UNCHANGED << all_packages, attempt, needed_packages, pip_packages,
                    ip_result, initialized, installed_packages, env_kind,
                    wipes, sequences, pip_calls, first_failed,
                    installed_at_call, list_failed, last_failure,
                    callerVars >>

\* step 2: list again, what is still missing is left for pip
VerifyInstalled ==
    /\ ip_pc = "verify"
    /\ \E ok \in BOOLEAN :
          LET listed == PipList(installed_packages, env_installed, ok)
          IN  /\ pip_packages' = NotInstalled(needed_packages, listed)
              /\ list_failed' = (list_failed \/ ~ok)
              /\ IF pip_packages' = {}
                 THEN /\ \E ok2 \in BOOLEAN :
                            installed_packages' =
                                PipList(listed, env_installed, ok2)
                      /\ ip_result' = Success
                      /\ ip_pc' = "done"
                 ELSE /\ installed_packages' = listed
                      /\ ip_pc' = "pip"
                      /\ UNCHANGED ip_result
    /\ UNCHANGED << all_packages, attempt, needed_packages, conda_error,
                    initialized, env_kind, env_installed, wipes, sequences,
                    conda_calls, pip_calls, first_failed, installed_at_call,
                    last_failure, conda_attempted, callerVars >>

\* step 3: pip install of the remaining packages
PipInstall ==
    /\ ip_pc = "pip"
    /\ pip_calls' = pip_calls + 1
    /\ \/ /\ env_installed' = env_installed \cup ListedNames(pip_packages)
          /\ \E ok2 \in BOOLEAN :
                installed_packages' =
                    PipList(installed_packages, env_installed', ok2)
          /\ ip_result' = Success
          /\ ip_pc' = "done"
          /\ UNCHANGED << initialized, env_kind, attempt, wipes, first_failed,
                          last_failure >>
       \/ FailSequence(<<"Package installation failed after retry. Cannot proceed.">>
                       \o FullError(conda_error), "pip")
    /\ UNCHANGED << all_packages, needed_packages, pip_packages, conda_error,
                    sequences, conda_calls, installed_at_call, list_failed,
                    conda_attempted, callerVars >>

\* the caller receives the pair
InstallPackagesReturn ==
    /\ ip_pc = "done"
    /\ ec_pc = "idle"
    /\ LeaveInstall
    /\ UNCHANGED << ip_result, initialized, installed_packages,
                    env_kind, env_installed, callerVars >>

InstallNext ==
    \/ InstallPackagesCall
    \/ EnsureEnvironment
    \/ CheckNeeded
    \/ CondaInstall
    \/ VerifyInstalled
    \/ PipInstall
    \/ InstallPackagesReturn

\* calls of install_packages on one manager, one after the other
InstallSpec == InstallInit /\ [][InstallNext]_vars

(* ------------------- environment manager: execute_code ----------------- *)
\* max_retries = MAX_RETRIES of env_manager: attempts of the correction loop
ENV_MAX_RETRIES == 5

\* max_package_failures
MAX_PACKAGE_FAILURES == 2

MAX_RUNTIME_RETRIES == 2

\* package lists a caller passes and a correction response may name
ExecPackageSets == { {}, {"numpy"} }

\* package_failure_counts.get(pkg, 0)
FailureCount(counts, q) == IF q \in DOMAIN counts THEN counts[q] ELSE 0

\* package_failure_counts[pkg] = package_failure_counts.get(pkg, 0) + 1 for
\* every package of the failed installation
CountFailures(counts, pkgs) ==
    [q \in (DOMAIN counts) \cup pkgs |->
        IF q \in pkgs THEN FailureCount(counts, q) + 1 ELSE counts[q]]

\* packages_to_discard
ToDiscard(counts, pkgs) ==
    { q \in pkgs : FailureCount(counts, q) >= MAX_PACKAGE_FAILURES }

\* f"[Attempt {attempt + 1}] <what>", the error text of the entry left out
LogEntry(a, what) == << "[Attempt", IntToStr(a + 1), "]", what >>

\* the entry of a correction request; its three texts (applied, applied in
\* part, failed) are not told apart
CorrectionEntry(a) == LogEntry(a, "LLM correction")

\* what one pass of the correction loop adds to fault_log before a correction
AttemptEntries(a, pkgOk, discard, synOk) ==
    (IF pkgOk THEN << >>
     ELSE << LogEntry(a, "Package installation failed.") >>)
    \o (IF discard = {} THEN << >>
        ELSE << LogEntry(a, "Discarded persistently failing packages") >>)
    \o (IF synOk THEN << >> ELSE << LogEntry(a, "Syntax error:") >>)

RECURSIVE FaultLogText(_)
\* "\n".join(fault_log)
FaultLogText(log) ==
    IF Len(log) = 0 THEN << >>
    ELSE log[1] \o FaultLogText(Tail(log))

\* error_parts of the last attempt
ErrorParts(pkgOk, synOk) ==
    (IF pkgOk THEN << >> ELSE << "package installation failed:" >>)
    \o (IF synOk THEN << >> ELSE << "syntax error:" >>)

\* mutant: the error of the last attempt comes without the history
PrepareError_NoHistory(pkgOk, synOk, log) ==
    << "Failed to prepare code after", IntToStr(ENV_MAX_RETRIES), "attempts:" >>
    \o ErrorParts(pkgOk, synOk)

\* the error message returned after the last attempt
PrepareError(pkgOk, synOk, log) ==
    << "Failed to prepare code after", IntToStr(ENV_MAX_RETRIES), "attempts:" >>
    \o ErrorParts(pkgOk, synOk)
    \o << "Full error history:" >> \o FaultLogText(log)

\* LocalRunnerResponse(error=...)
ErrorResponse(msg) == [output |-> None, error |-> msg]

\* mutant: a missing module is installed and the script run again without end
MayRetryRuntime_Always(n) == TRUE

\* runtime_attempt < MAX_RUNTIME_RETRIES
MayRetryRuntime(n) == n < MAX_RUNTIME_RETRIES

\* re.findall(r"No module named ...", stderr)
MissingPkgs(stderr) ==
    IF \E i \in 1..Len(stderr) : stderr[i] = "No module named 'numpy'"
    THEN {"numpy"} ELSE {}

\* what a run of the script can leave: exit code, stdout and stderr
RunOutcomes ==
    { [returncode |-> 0, stdout |-> <<"out">>, stderr |-> << >>],
      [returncode |-> 1, stdout |-> << >>,
       stderr |-> <<"ModuleNotFoundError:", "No module named 'numpy'">>],
      [returncode |-> 1, stdout |-> <<"out">>, stderr |-> <<"Traceback">>],
      [returncode |-> 1, stdout |-> << >>, stderr |-> << >>] }

\* subprocess.CompletedProcess(args=[], returncode=1, stdout="", stderr=str(e))
ExceptionProcess ==
    [returncode |-> 1, stdout |-> << >>, stderr |-> <<"exception">>]

\* the response built from the last run
RunResponse(proc) ==
    [output |-> proc.stdout,
     error |-> IF proc.returncode # 0 THEN proc.stderr ELSE None]

\* execute_code is entered: the switch to the isolated environment and the
\* extraction of the code
ExecuteCodeCall ==
    /\ ec_pc = "idle"
    /\ ip_pc = "idle"
    /\ original_env_path' = env_path
    /\ original_python_exec' = python_executable
    /\ function_name' = FALSE
    /\ \E isolated \in BOOLEAN, code \in {"none", "valid", "invalid"},
          pkgs \in ExecPackageSets, created \in BOOLEAN :
          /\ use_isolated_env' = isolated
          /\ current_code' = code
          /\ current_packages' = pkgs
          /\ IF isolated
             THEN LET kind == IF env_path = "iso" THEN env_kind ELSE other_kind
                      inst == IF env_path = "iso" THEN env_installed
                              ELSE other_installed
                  IN  /\ env_path' = "iso"
                      /\ other_kind' =
                            IF env_path = "iso" THEN other_kind ELSE env_kind
                      /\ other_installed' =
                            IF env_path = "iso" THEN other_installed
                            ELSE env_installed
                      /\ IF kind = "none" /\ ~created
                         THEN \* python -m venv fails: CalledProcessError
                              /\ env_kind' = "none"
                              /\ env_installed' = {}
                              /\ ec_pc' = "raised"
                              /\ response' = NoResponse
                              /\ UNCHANGED << python_executable, initialized,
                                              installed_packages >>
                         ELSE /\ env_kind' =
                                    IF kind = "none" THEN "venv" ELSE kind
                              /\ env_installed' =
                                    IF kind = "none" THEN {} ELSE inst
                              /\ python_executable' = "iso"
                              /\ initialized' = FALSE
                              /\ installed_packages' = {}
                              /\ IF code = "none"
                                 THEN /\ response' = ErrorResponse(
                                           <<"No executable code found in the input.">>)
                                      /\ ec_pc' = "returned"
                                 ELSE /\ response' = NoResponse
                                      /\ ec_pc' = "install"
             ELSE /\ created
                  /\ IF code = "none"
                     THEN /\ response' = ErrorResponse(
                               <<"No executable code found in the input.">>)
                          /\ ec_pc' = "returned"
                     ELSE /\ response' = NoResponse
                          /\ ec_pc' = "install"
                  /\ UNCHANGED << env_path, python_executable, other_kind,
                                  other_installed, env_kind, env_installed,
                                  initialized, installed_packages >>
    /\ correction_attempt' = 0
    /\ package_failure_counts' = << >>
    /\ discarded_packages' = {}
    /\ fault_log' = << >>
    /\ package_success' = FALSE
    /\ syntax_success' = FALSE
    /\ runtime_attempt' = 0
    /\ exec_process' = NoProcess
    /\ prepares' = 0
    /\ corrections' = 0
    /\ runs' = 0
    /\ UNCHANGED << ip_pc, all_packages, attempt, needed_packages,
                    pip_packages, conda_error, ip_result, wipes, sequences,
                    conda_calls, pip_calls, first_failed, installed_at_call,
                    list_failed, last_failure, conda_attempted,
                    runVars >>

\* what execute_code leaves alone while it calls install_packages
ExecFrame ==
    << use_isolated_env, function_name, env_path, python_executable,
       original_env_path, original_python_exec, other_kind, other_installed,
       correction_attempt, current_packages, current_code,
       package_failure_counts, discarded_packages, fault_log,
       package_success, syntax_success, runtime_attempt, exec_process,
       response, prepares, corrections, runs >>

\* the head of the correction loop: install_packages(current_packages, [])
ExecInstallCall ==
    /\ ec_pc = "install"
    /\ ip_pc = "idle"
    /\ EnterInstall(current_packages)
    /\ ec_pc' = "installing"
    /\ UNCHANGED << ip_result, initialized, installed_packages, env_kind,
                    env_installed, ExecFrame, runVars >>

\* install_packages has returned: the syntax check, the fault log, the
\* discarding of packages, and the way out of the pass
ExecPrepared ==
    /\ ec_pc = "installing"
    /\ ip_pc = "done"
    /\ LeaveInstall
    /\ ip_result' = NoResult
    /\ prepares' = prepares + 1
    /\ LET pkgOk == ip_result.success
           synOk == current_code = "valid"
           counts == IF pkgOk THEN package_failure_counts
                     ELSE CountFailures(package_failure_counts,
                                        current_packages)
           discard == IF pkgOk THEN {}
                      ELSE ToDiscard(counts, current_packages)
           log == fault_log
                  \o AttemptEntries(correction_attempt, pkgOk, discard, synOk)
       IN  /\ package_success' = pkgOk
           /\ syntax_success' = synOk
           /\ package_failure_counts' = counts
           /\ current_packages' = current_packages \ discard
           /\ discarded_packages' = discarded_packages \cup discard
           /\ fault_log' = log
           /\ IF pkgOk /\ synOk
              THEN \E fn \in BOOLEAN, written \in BOOLEAN :
                      /\ fn \/ written
                      /\ function_name' = fn
                      /\ IF fn /\ ~written
                         THEN /\ ec_pc' = "returned"
                              /\ response' = ErrorResponse(
                                   <<"Failed to create function loader script:",
                                     "exception">>)
                         ELSE ec_pc' = "run" /\ UNCHANGED response
              ELSE /\ UNCHANGED function_name
                   /\ IF correction_attempt = ENV_MAX_RETRIES - 1
                      THEN /\ ec_pc' = "returned"
                           /\ response' =
                                 ErrorResponse(PrepareError(pkgOk, synOk, log))
                      ELSE ec_pc' = "correct" /\ UNCHANGED response
    /\ UNCHANGED << initialized, installed_packages, env_kind, env_installed,
                    use_isolated_env, env_path,
                    python_executable, original_env_path,
                    original_python_exec, other_kind, other_installed,
                    correction_attempt, current_code, runtime_attempt,
                    exec_process, corrections, runs, runVars >>

\* the correction request: the response gives code and packages, code only,
\* or nothing that can be extracted; basic_llm.invoke may raise
ExecCorrect ==
    /\ ec_pc = "correct"
    /\ corrections' = corrections + 1
    /\ \/ \E code \in {"valid", "invalid"}, pkgs \in ExecPackageSets :
             /\ current_code' = code
             /\ current_packages' = pkgs
             /\ fault_log' =
                   Append(fault_log, CorrectionEntry(correction_attempt))
             /\ correction_attempt' = correction_attempt + 1
             /\ ec_pc' = "install"
       \/ \E code \in {"valid", "invalid"} :
             /\ current_code' = code
             /\ fault_log' =
                   Append(fault_log, CorrectionEntry(correction_attempt))
             /\ correction_attempt' = correction_attempt + 1
             /\ ec_pc' = "install"
             /\ UNCHANGED current_packages
       \/ /\ fault_log' =
                Append(fault_log, CorrectionEntry(correction_attempt))
          /\ correction_attempt' = correction_attempt + 1
          /\ ec_pc' = "install"
          /\ UNCHANGED << current_code, current_packages >>
       \/ /\ ec_pc' = "raised"
          /\ UNCHANGED << current_code, current_packages, fault_log,
                          correction_attempt >>
    /\ UNCHANGED << installVars, use_isolated_env, function_name, env_path,
                    python_executable, original_env_path,
                    original_python_exec, other_kind, other_installed,
                    package_failure_counts, discarded_packages,
                    package_success, syntax_success, runtime_attempt,
                    exec_process, response, prepares, runs, runVars >>

\* one pass of the runtime loop: the script is run
ExecRun ==
    /\ ec_pc = "run"
    /\ \/ \E proc \in RunOutcomes :
             /\ exec_process' = proc
             /\ runs' = runs + 1
             /\ ec_pc' = IF proc.returncode # 0
                            /\ MissingPkgs(proc.stderr) # {}
                            /\ MayRetryRuntime(runtime_attempt)
                         THEN "rt_install" ELSE "finish"
       \/ \* the temporary file cannot be written
          /\ exec_process' = ExceptionProcess
          /\ ec_pc' = "finish"
          /\ UNCHANGED runs
    /\ UNCHANGED << installVars, use_isolated_env, function_name, env_path,
                    python_executable, original_env_path,
                    original_python_exec, other_kind, other_installed,
                    correction_attempt, current_packages, current_code,
                    package_failure_counts, discarded_packages, fault_log,
                    package_success, syntax_success, runtime_attempt,
                    response, prepares, corrections, runVars >>

\* install_packages(missing_pkgs, []) of the runtime loop
ExecRuntimeInstallCall ==
    /\ ec_pc = "rt_install"
    /\ ip_pc = "idle"
    /\ EnterInstall(MissingPkgs(exec_process.stderr))
    /\ ec_pc' = "rt_installing"
    /\ UNCHANGED << ip_result, initialized, installed_packages, env_kind,
                    env_installed, ExecFrame, runVars >>

\* install_success is the pair install_packages returns: "if install_success"
\* takes the branch whatever the pair holds
ExecRuntimeInstalled ==
    /\ ec_pc = "rt_installing"
    /\ ip_pc = "done"
    /\ LeaveInstall
    /\ ip_result' = NoResult
    /\ current_packages' =
          current_packages \cup MissingPkgs(exec_process.stderr)
    /\ runtime_attempt' = runtime_attempt + 1
    /\ ec_pc' = "run"
    /\ UNCHANGED << initialized, installed_packages, env_kind, env_installed,
                    use_isolated_env, function_name, env_path,
                    python_executable, original_env_path,
                    original_python_exec, other_kind, other_installed,
                    correction_attempt, current_code, package_failure_counts,
                    discarded_packages, fault_log, package_success,
                    syntax_success, exec_process, response, prepares,
                    corrections, runs, runVars >>

\* after the runtime loop: the paths are restored for an isolated call and the
\* response is built from the last run
ExecReturn ==
    /\ ec_pc = "finish"
    /\ IF use_isolated_env
       THEN /\ env_path' = original_env_path
            /\ python_executable' = original_python_exec
            /\ IF original_env_path # env_path
               THEN /\ env_kind' = other_kind
                    /\ env_installed' = other_installed
                    /\ other_kind' = env_kind
                    /\ other_installed' = env_installed
               ELSE UNCHANGED << env_kind, env_installed, other_kind,
                                 other_installed >>
       ELSE UNCHANGED << env_path, python_executable, env_kind,
                         env_installed, other_kind, other_installed >>
    /\ response' = RunResponse(exec_process)
    /\ ec_pc' = "returned"
    /\ UNCHANGED << ip_pc, all_packages, attempt, needed_packages,
                    pip_packages, conda_error, ip_result, initialized,
                    installed_packages, wipes, sequences, conda_calls,
                    pip_calls, first_failed, installed_at_call, list_failed,
                    last_failure, conda_attempted,
                    use_isolated_env, function_name, original_env_path,
                    original_python_exec, correction_attempt,
                    current_packages, current_code, package_failure_counts,
                    discarded_packages, fault_log, package_success,
                    syntax_success, runtime_attempt, exec_process, prepares,
                    corrections, runs, runVars >>

\* code_runner.code_execute_local: the text made of the response
CodeExecuteLocal(resp, return_value) ==
    IF Truthy(resp.error) THEN <<"[Error]">> \o resp.error
    ELSE IF return_value # None THEN <<"[Return Value]:">> \o return_value
    ELSE IF Truthy(resp.output) THEN resp.output
    ELSE <<"[No output]">>

\* the caller has the response, or the exception: the locals of the call are
\* gone and the manager is free, with the fields the call left in it; later
\* calls are followed for a manager whose interpreter is that of env_path
ExecDone ==
    /\ ec_pc \in {"returned", "raised"}
    /\ ip_pc = "idle"
    /\ env_path = python_executable
    /\ ec_pc' = "closed"
    /\ use_isolated_env' = FALSE
    /\ function_name' = FALSE
    /\ original_env_path' = "shared"
    /\ original_python_exec' = "shared"
    /\ correction_attempt' = 0
    /\ current_packages' = {}
    /\ current_code' = "none"
    /\ package_failure_counts' = << >>
    /\ discarded_packages' = {}
    /\ fault_log' = << >>
    /\ package_success' = FALSE
    /\ syntax_success' = FALSE
    /\ runtime_attempt' = 0
    /\ exec_process' = NoProcess
    /\ response' = NoResponse
    /\ prepares' = 0
    /\ corrections' = 0
    /\ runs' = 0
    /\ UNCHANGED << installVars, env_path, python_executable, other_kind,
                    other_installed, runVars >>

\* install_packages is called on the manager after the execute_code call
InstallAfterCall ==
    /\ ec_pc = "closed"
    /\ ip_pc = "idle"
    /\ \E pkgs \in SUBSET Packages : EnterInstall(pkgs)
    /\ UNCHANGED << ip_result, initialized, installed_packages, env_kind,
                    env_installed, callerVars >>

\* and its caller receives the pair
InstallAfterReturn ==
    /\ ec_pc = "closed"
    /\ ip_pc = "done"
    /\ LeaveInstall
    /\ UNCHANGED << ip_result, initialized, installed_packages,
                    env_kind, env_installed, callerVars >>

ExecNext ==
    \/ ExecuteCodeCall
    \/ ExecInstallCall
    \/ EnsureEnvironment
    \/ CheckNeeded
    \/ CondaInstall
    \/ VerifyInstalled
    \/ PipInstall
    \/ ExecPrepared
    \/ ExecCorrect
    \/ ExecRun
    \/ ExecRuntimeInstallCall
    \/ ExecRuntimeInstalled
    \/ ExecReturn
    \/ ExecDone
    \/ InstallAfterCall
    \/ InstallAfterReturn

\* a call of execute_code on the singleton manager, and the calls of
\* install_packages that follow it
ExecSpec == Init /\ [][ExecNext]_vars

TypeOK ==
    /\ pc \in {"plan", "maybe_request_user_input", "next_subtask", "resolve",
               "brainstorm", "research", "generate", "validate", "register",
               "prepare_args", "execute", "finish", "review", "fail",
               "END", "returned"}
    /\ current_subtask_idx \in 0..MaxSubtasks
    /\ generation_retry_count \in 0..MaxGenCount
    /\ review_retry_count \in 0..MaxReviewCount
    /\ current_subtask_failure_count \in Nat
    /\ has_more_subtasks \in BOOLEAN
    /\ validation_passed \in BOOLEAN
    /\ need_more_research \in BOOLEAN
    /\ review_passed \in BOOLEAN

(* ------------------- tool registry: concurrent writers ----------------- *)
\* what the workflow of this model and the manager keep while other runs
\* write the registry
RegistryFrame ==
    << pc, last, interactive, original_query, subtasks,
       current_subtask_idx, active_query, subtask_results,
       has_more_subtasks, current_subtask_failure_count, tool_name,
       tool_input_schema, tool_arguments, validation_passed,
       validation_error, generation_retry_count, need_more_research,
       generated_code, final_answer, review_passed, review_retry_count,
       resolve_action, last_message, cache,
       finish_count, synth_validations, validate_count, outcome,
       cache_writes, executed_queries, run_result, installVars, ecVars >>

\* register_node of run r calls insert_mcp, for a tool no other run registers
InsertMcpCall(r) ==
    /\ im_pc[r] = "idle"
    /\ \E t \in InsertTools :
          /\ \A o \in Runs \ {r} : im_tool[o].name # t.name
          /\ im_tool' = [im_tool EXCEPT ![r] = t]
    /\ im_pc' = [im_pc EXCEPT ![r] = "called"]
    /\ UNCHANGED << im_data, registry, RegistryFrame >>

\* data = json.load(f), or [] when the file does not exist
InsertMcpRead(r) ==
    /\ im_pc[r] = "called"
    /\ im_data' = [im_data EXCEPT ![r] = registry]
    /\ im_pc' = [im_pc EXCEPT ![r] = "read"]
    /\ UNCHANGED << im_tool, registry, RegistryFrame >>

\* data.append(tool.model_dump()); json.dump(data, f): the file is replaced
\* by the list loaded earlier plus the record
InsertMcpWrite(r) ==
    /\ im_pc[r] = "read"
    /\ registry' = InsertMcp(im_data[r], im_tool[r])
    /\ im_pc' = [im_pc EXCEPT ![r] = "written"]
    /\ UNCHANGED << im_tool, im_data, RegistryFrame >>

InsertNext ==
    \E r \in Runs :
        \/ InsertMcpCall(r)
        \/ InsertMcpRead(r)
        \/ InsertMcpWrite(r)

\* two runs register a tool each; no lock orders their steps
RegistrySpec == Init /\ [][InsertNext]_vars

(* ----------------------------- properties ------------------------------ *)
Terminated == pc \in {"END", "returned"}

\* str.startswith("Error")
BeginsWithErrorMarker(t) == Len(t) > 0 /\ t[1] = "Error"

\* C1: under every sequence of outcomes of the external calls a run reaches
\* END (or returns) after finitely many node transitions.
C1_Terminates == <>Terminated

\* C2: when decide_validation reads generation_retry_count, right after
\* validate ran, the counter is at most MAX_RETRIES.
C2_GenerationRetryBounded ==
    last = "validate" => generation_retry_count <= MAX_RETRIES

\* C3: when decide_review reads review_retry_count, right after review ran,
\* the counter is at most 3.
C3_ReviewRetryBounded ==
    last = "review" => review_retry_count <= REVIEW_CAP

\* C4: current_subtask_failure_count never exceeds 3, and once it is 3 the
\* graph is at END (no node is entered any more).
C4_FailureCountCapped ==
    /\ current_subtask_failure_count <= FAILURE_CAP
    /\ current_subtask_failure_count = FAILURE_CAP => Terminated

\* C4 witness: the third failure of a subtask ended the graph
C4_Witness ==
    /\ current_subtask_failure_count = FAILURE_CAP
    /\ last = "fail"
    /\ pc = "END"

\* C5: a finish transition leaves current_subtask_idx or adds exactly 1 to
\* it, and once a plan has run 0 <= current_subtask_idx < len(subtasks).
C5_IndexInRange ==
    /\ [](last # "START" =>
            /\ 0 <= current_subtask_idx
            /\ current_subtask_idx < Len(subtasks))
    /\ [][pc = "finish" =>
            \/ current_subtask_idx' = current_subtask_idx
            \/ current_subtask_idx' = current_subtask_idx + 1]_vars

\* C5 witness: after a re-plan, finish advanced the index of a two-subtask plan
C5_Witness ==
    /\ last = "finish"
    /\ current_subtask_idx = 1
    /\ Len(subtasks) = 2
    /\ review_retry_count > 0

\* C6: on the create path finish is entered from execute: the registered
\* tool has been executed for the subtask before finish runs.
C6_CreatePathExecutes ==
    (pc = "finish" /\ resolve_action = "create_new_tool") => last = "execute"

\* C7: after k finish transitions following a plan, subtask_results has k
\* entries.
C7_OneResultPerFinish ==
    last = "finish" => Len(subtask_results) = finish_count

\* C8: a failed validation routes back to generate exactly while fewer than
\* MAX_RETRIES validations have run for the synthesis, to fail otherwise,
\* and the next generate finds the validation error in the state.
C8_RetryBudgetPerSynthesis ==
    (last = "validate" /\ ~validation_passed /\ pc \in {"generate", "fail"}) =>
        /\ pc = "generate" <=> synth_validations < MAX_RETRIES
        /\ pc = "generate" => StartsWithError(validation_error)

\* C9: a run ended by the fail state has has_more_subtasks = FALSE and a
\* final answer that begins with "Error", and run returns that text.
C9_FailureIsTextualAnswer ==
    (last = "fail" /\ Terminated) =>
        /\ ~has_more_subtasks
        /\ BeginsWithErrorMarker(final_answer)
        /\ pc = "returned" => run_result = final_answer

\* C9 witness: the run gave up after the third failure and returned
C9_Witness ==
    /\ last = "fail"
    /\ pc = "returned"
    /\ current_subtask_failure_count = FAILURE_CAP

\* C10: a fail transition whose incremented count is below 3 goes to
\* next_subtask and leaves current_subtask_idx, subtasks and
\* subtask_results as they were.
C10_RetryKeepsSubtask ==
    [][(pc = "fail" /\ current_subtask_failure_count + 1 < FAILURE_CAP) =>
          /\ pc' = "next_subtask"
          /\ UNCHANGED << current_subtask_idx, subtasks, subtask_results >>]_vars

\* C10 witness: a second failure of the second subtask is being retried
C10_Witness ==
    /\ last = "fail"
    /\ pc = "next_subtask"
    /\ current_subtask_failure_count = 2
    /\ current_subtask_idx = 1

\* C11: a review whose model output cannot be parsed as the JSON verdict
\* sets review_passed, leaves review_retry_count at 0 and ends the workflow.
C11_UnparsableReviewPasses ==
    (last = "review" /\ outcome = "unparsable") =>
        /\ review_passed
        /\ review_retry_count = 0
        /\ Terminated

\* C12: each of the first three failed reviews of a run routes back to plan,
\* only a failed review beyond those three routes to fail.
C12_FirstThreeFailedReviewsReplan ==
    (last = "review" /\ ~review_passed /\ pc \in {"plan", "fail"}) =>
        (pc = "plan" <=> review_retry_count <= REVIEW_CAP)

\* C13: when the output of the generate model carries the
\* insufficient-information sentinel the next node is research.
C13_SentinelRoutesToResearch ==
    (last = "generate" /\ outcome = "NEED_MORE_INFO") => pc = "research"

\* C14: a failure detected in a synthesis/execution stage leads to fail: a
\* brainstorm that reported an error, and an execute whose result is an error
\* text, are followed by fail and not by finish.
C14_StageFailureLeadsToFail ==
    /\ (last = "brainstorm" /\ Truthy(validation_error)) => pc = "fail"
    /\ (last = "execute" /\ outcome = "executed"
          /\ StartsWithError(last_message)) => pc = "fail"

\* C15: once the tool of a subtask with capability query q was executed
\* successfully and its result cached, a later resolution of q returns
\* use_cache and goes on to finish.
C15_RepeatedQueryUsesCache ==
    (last = "resolve" /\ active_query \in executed_queries) =>
        /\ resolve_action = "use_cache"
        /\ pc = "finish"

\* the (tool_name, args) pairs _cache_result was called with
WrittenKeys == { <<w.name, w.args>> : w \in cache_writes }

C18_RegistryNamesUnique ==
    \A i, j \in 1..Len(registry) :
        i # j => registry[i].name # registry[j].name

\* C19: install_packages called with packages that are all installed in the
\* current environment returns success without a conda install command,
\* without a pip install command and without wiping the environment (the pip
\* list commands of the call having worked).
C19_InstalledSetNeedsNoInstall ==
    (ip_pc = "done" /\ installed_at_call /\ ~list_failed) =>
        /\ ip_result.success
        /\ conda_calls = 0
        /\ pip_calls = 0
        /\ wipes = 0

\* C20: within one install_packages call the environment is wiped at most
\* once and the install sequence runs at most twice; the wipe happens exactly
\* when the first sequence failed, and a returned failure comes after the
\* second sequence, with that single wipe.
C20_OneWipeOneRetry ==
    /\ wipes <= 1
    /\ sequences <= INSTALL_ATTEMPTS
    /\ wipes = 1 <=> first_failed
    /\ (ip_pc = "done" /\ ~ip_result.success) =>
          (sequences = INSTALL_ATTEMPTS /\ wipes = 1)

\* C20 witness: pip failed in both sequences and the call returned failure
C20_Witness ==
    /\ ip_pc = "done"
    /\ ~ip_result.success
    /\ pip_calls = 2
    /\ wipes = 1

\* the text t holds the piece x
HasToken(t, x) == \E i \in 1..Len(t) : t[i] = x

\* C21 as stated: whenever install_packages returns failure after its second
\* attempt, the error message holds the error text of the conda installer and
\* of the pip installer.
C21_BothBackendsInError ==
    (ip_pc = "done" /\ ~ip_result.success /\ attempt = 1) =>
        /\ HasToken(ip_result.error, "conda stderr")
        /\ HasToken(ip_result.error, "pip stderr")

\* C21 amended: whenever install_packages returns failure because the pip
\* install of its second attempt failed, the error message holds the error
\* text of pip, and it holds the error text of the conda installer exactly
\* when the conda install of that attempt was run and failed with a non-empty
\* error output.
C21_PipErrorAndCondaErrorIfAny ==
    (ip_pc = "done" /\ ~ip_result.success /\ last_failure = "pip") =>
        /\ attempt = 1
        /\ HasToken(ip_result.error, "pip stderr")
        /\ HasToken(ip_result.error, "conda stderr")
              <=> (conda_attempted /\ conda_error = <<"conda stderr">>)

\* C21 witness: conda and pip both failed in the second attempt
C21_Witness ==
    /\ ip_pc = "done"
    /\ ~ip_result.success
    /\ last_failure = "pip"
    /\ conda_attempted
    /\ conda_error = <<"conda stderr">>

\* C29: within an install sequence the pip install command is issued only
\* after the conda install attempt (in a conda environment), only for the
\* needed packages that the environment still lacks after that attempt, and
\* never for nothing (the pip list commands of the call having worked).
C29_PipOnlyForRemaining ==
    (ip_pc = "pip" /\ ~list_failed) =>
        /\ env_kind = "conda" => conda_attempted
        /\ pip_packages =
              { q \in needed_packages : ListedName(q) \notin env_installed }
        /\ pip_packages # {}

\* values the resolve_action field can hold, with None and a value that
\* decide_resolution does not know
ResolveActions == {"use_cache", "use_mcp", "create_new_tool", "None", "other"}

\* C27: after resolve the next node is finish exactly for use_cache,
\* prepare_args exactly for use_mcp, and brainstorm for every other action,
\* an absent or unrecognized one included.
C27_ResolutionRouting ==
    /\ (last = "resolve" /\ pc # "returned") =>
          /\ pc \in {"finish", "prepare_args", "brainstorm"}
          /\ pc = "finish" <=> resolve_action = "use_cache"
          /\ pc = "prepare_args" <=> resolve_action = "use_mcp"
    /\ \A a \in ResolveActions :
          /\ DecideResolution(a) = "finish" <=> a = "use_cache"
          /\ DecideResolution(a) = "prepare_args" <=> a = "use_mcp"
          /\ a \notin {"use_cache", "use_mcp"} =>
                DecideResolution(a) = "brainstorm"

\* C27 witness: resolve found neither a cached result nor a tool
C27_Witness ==
    /\ last = "resolve"
    /\ resolve_action = "create_new_tool"
    /\ pc = "brainstorm"

\* C28: generation_retry_count is the number of validate transitions made:
\* each of them, passing or failing, adds one and nothing else changes it.
C28_RetryCountCountsValidations ==
    generation_retry_count = validate_count

\* C28 witness: a validation passed after one that failed
C28_Witness ==
    /\ last = "validate"
    /\ validation_passed
    /\ validate_count = 2

\* C30: after a plan transition the subtask list is not empty, the index is 0
\* and the results are empty; for malformed planner output the list is the
\* one subtask whose description and capability query are the user query.
C30_PlanResets ==
    last = "plan" =>
        /\ Len(subtasks) > 0
        /\ current_subtask_idx = 0
        /\ subtask_results = <<>>
        /\ outcome = "malformed" =>
              /\ Len(subtasks) = 1
              /\ subtasks[1].description = original_query
              /\ subtasks[1].capability_query = original_query

\* C30 witness: a re-plan after a failed review got malformed output while
\* the query of another subtask was active
C30_Witness ==
    /\ last = "plan"
    /\ outcome = "malformed"
    /\ review_retry_count > 0
    /\ pc = "maybe_request_user_input"

\* the text t ends with the text u
IsSuffix(u, t) ==
    /\ Len(u) <= Len(t)
    /\ \A i \in 1..Len(u) : t[Len(t) - Len(u) + i] = u[i]

\* the text t holds an entry of attempt n
HasEntryOfAttempt(t, n) ==
    \E i \in 1..(Len(t) - 1) : t[i] = "[Attempt" /\ t[i + 1] = IntToStr(n)

\* C22: in one execute_code call, a package that was in the list of two
\* failed installations is in the list of no later installation of the
\* correction loop.
C22_FailedTwiceNotRetried ==
    ec_pc = "installing" =>
        \A q \in all_packages : FailureCount(package_failure_counts, q) < 2

\* C23: the correction loop makes at most 5 prepare attempts and at most 4
\* correction requests; the code is run only after an attempt in which the
\* installation and the syntax check both succeeded; when all 5 attempts
\* fail the call returns, without a run, an error that ends with the fault
\* log, and the log has an entry of every attempt.
C23_CorrectionLoopBounded ==
    /\ prepares <= 5
    /\ corrections <= 4
    /\ (runs > 0 \/ ec_pc \in {"run", "rt_install", "rt_installing", "finish"})
          => (package_success /\ syntax_success)
    /\ (ec_pc = "returned" /\ prepares = 5
        /\ ~(package_success /\ syntax_success)) =>
          /\ runs = 0
          /\ IsSuffix(FaultLogText(fault_log), response.error)
          /\ \A n \in 1..5 : HasEntryOfAttempt(response.error, n)

\* C23 witness: five attempts failed, with a package discarded on the way
C23_Witness ==
    /\ ec_pc = "returned"
    /\ prepares = 5
    /\ corrections = 4
    /\ ~package_success
    /\ discarded_packages # {}

C25_IsolationRestored ==
    (ec_pc \in {"returned", "raised"} /\ use_isolated_env) =>
        /\ env_path = original_env_path
        /\ python_executable = original_python_exec

\* C26: in every response of execute_code output and error are not both
\* populated, and error is populated only if the code was run and exited
\* with a nonzero status.
C26_OutputErrorExclusive ==
    ec_pc = "returned" =>
        /\ ~(Truthy(response.output) /\ Truthy(response.error))
        /\ Truthy(response.error) =>
              (runs > 0 /\ exec_process.returncode # 0)

\* C31: whenever generate produces code without the insufficient-information
\* sentinel, the next node is validate, also when an earlier generate of the
\* run signalled the sentinel.
C31_CodeGoesToValidate ==
    (last = "generate" /\ outcome = "code" /\ pc # "returned") =>
        pc = "validate"

\* C32: a run is at END only directly after a review that passed or directly
\* after a fail that brought the failure count of the subtask to 3 or more;
\* finish never routes to END.
C32_EndOnlyAfterReviewOrFail ==
    /\ pc = "END" =>
          \/ last = "review" /\ review_passed
          \/ last = "fail" /\ current_subtask_failure_count >= FAILURE_CAP
    /\ (last = "finish" /\ pc # "returned") => pc \in {"next_subtask", "review"}

\* C32 witness: a run that completed a subtask earlier ends after its third
\* failure
C32_Witness ==
    /\ pc = "END"
    /\ last = "fail"
    /\ current_subtask_failure_count >= FAILURE_CAP
    /\ finish_count > 0

\* C33: prepare_args is always followed by execute, whatever validation_error
\* an earlier stage left in the state.
C33_PrepareArgsThenExecute ==
    (last = "prepare_args" /\ pc # "returned") => pc = "execute"

\* C34: when finish follows a resolution from the cache and that subtask is
\* the only one with a result, final_answer is the cached result text.
C34_CachedResultIsAnswer ==
    (last = "finish" /\ resolve_action = "use_cache"
     /\ Len(subtask_results) = 1) =>
        final_answer = subtask_results[1]

\* C38: whenever next_subtask is entered for another subtask than the one
\* worked on before (from finish, which advanced the index, or from a plan,
\* which reset it to 0), current_subtask_failure_count is 0.
C38_FreshBudgetPerSubtask ==
    (pc = "next_subtask" /\ last \in {"finish", "maybe_request_user_input"})
        => current_subtask_failure_count = 0

\* C38 witness: the second subtask is started after the first one was
\* completed at its fourth validation, that is after a visit of fail
C38_Witness ==
    /\ pc = "next_subtask"
    /\ last = "finish"
    /\ current_subtask_idx = 1
    /\ generation_retry_count > MAX_RETRIES
    /\ current_subtask_failure_count = 0

\* what validate_node reads from an execute_code call made without a
\* function name
ValidateResult == CodeExecuteLocal(response, None)

\* C35: the result of a validation passes only if the code was run and its
\* process exited with status 0; a run that exits nonzero, whatever it wrote,
\* gives a result that begins with [Error].
C35_PassOnlyOnExitZero ==
    (ec_pc = "returned" /\ ~function_name) =>
        /\ ValidationSuccess(ValidateResult) =>
              (runs > 0 /\ exec_process.returncode = 0)
        /\ (runs > 0 /\ exec_process.returncode # 0) =>
              StartsWithError(ValidateResult)

\* no call is in progress on the manager
BetweenCalls == ec_pc \in {"idle", "closed"} /\ ip_pc = "idle"

\* C36: between calls the cached package set holds only packages installed in
\* the environment env_path points to, the initialized flag is set only if
\* that environment exists, and an install_packages call that reports success
\* leaves every requested package installed there.
C36_CacheDescribesEnvironment ==
    /\ BetweenCalls =>
          /\ installed_packages \subseteq env_installed
          /\ initialized => env_kind # "none"
    /\ (ec_pc \in {"idle", "closed"} /\ ip_pc = "done" /\ ip_result.success)
          => ListedNames(all_packages) \subseteq env_installed

\* C37: in the runtime recovery the code is run again only if install_packages
\* reported success for the missing modules.
C37_RerunOnlyAfterInstall ==
    [][(ec_pc = "rt_installing" /\ ec_pc' = "run") => ip_result.success]_vars

\* the records of a registry
Records(reg) == { reg[i] : i \in 1..Len(reg) }

\* the record insert_mcp stores for a tool
StoredRecord(tool) == [tool EXCEPT !.code = ExtractFunctionCode(tool.code)]

\* C39: when the insert_mcp calls of two runs, for different tools, have both
\* completed, the registry holds both tool records and every record either
\* call had loaded, however their reads and writes were interleaved.
C39_AppendOnlyUnderConcurrency ==
    (\A r \in Runs : im_pc[r] = "written") =>
        \A r \in Runs :
            /\ StoredRecord(im_tool[r]) \in Records(registry)
            /\ Records(im_data[r]) \subseteq Records(registry)
====
